---- MODULE Spec2Model ----
(***************************************************************************)
(* Model of the dispenser gateway (src/app.py): the POST branch of index,  *)
(* process_event (validation, authentication, dispatch), the five event    *)
(* handlers, the dispensers table behind db.session and the (disabled)     *)
(* Kafka producer.                                                         *)
(*                                                                         *)
(* Flask's development server (app.run) serves requests on threads, so     *)
(* several requests are in flight at once.  Lines 86-105 of process_event  *)
(* read only the request and the constant credential table, so a request   *)
(* is validated and authenticated in one step (Post); the handler, which   *)
(* is the only code that touches the database, is a second step (one       *)
(* action per handler).  db.session.commit() is one SQLite transaction.    *)
(* Which thread serves a request is of no consequence to the program.      *)
(* The dispensers table is taken to exist in db.sqlite3 and to be empty    *)
(* when the server starts.                                                 *)
(***************************************************************************)
EXTENDS Integers, Sequences, FiniteSets, TLC

\* ---------------------------------------------------------------- bounds
NumWorkers == 2       \* requests served at the same time
MaxId == 2            \* integer ids 0..MaxId are posted

Workers == 1..NumWorkers

\* ------------------------------------------------- JSON / Python values
\* A decoded JSON value: its Python type (k) and its content.
Absent == [k |-> "absent", n |-> 0, s |-> ""]    \* key not in the dict
None == [k |-> "null", n |-> 0, s |-> ""]
IntVal(i) == [k |-> "int", n |-> i, s |-> ""]
StrVal(t) == [k |-> "str", n |-> 0, s |-> t]

\* Python truth value of x, as tested by `not x`
truthy(x) ==
    CASE x.k = "int" -> x.n # 0
      [] x.k = "str" -> x.s # ""
      [] OTHER -> FALSE

\* dict.get(key): None when the key is absent
get(event, key) == IF event[key] = Absent THEN None ELSE event[key]

\* ------------------------------------------------------------ constants
DefaultCapacity == 20
DefaultName == "Another Dispenser"

\* the list of line 97 with one type too many
legal_types_with_foo ==
    <<"STARTUP", "DISPENSE", "REFILL", "REFILLED", "EMPTY", "FOO">>

legal_types == <<"STARTUP", "DISPENSE", "REFILL", "REFILLED", "EMPTY">>

\* `x in list`: some element equals x
in_list(x, list) == \E i \in 1..Len(list) : x = StrVal(list[i])

permitted_devices == [key \in {IntVal(1)} |-> StrVal("42x5yz")]

dict_get(d, key) == IF key \in DOMAIN d THEN d[key] ELSE None

\* abort(code): the request ends with that status; log is the warning logged
abort(code, log) == [status |-> code, log |-> log]
Admitted == [status |-> 0, log |-> ""]

\* ------------------------------------------------------------- requests
IdValues == {Absent, None, StrVal("1")} \cup {IntVal(i) : i \in 0..MaxId}
TokenValues == {Absent, StrVal(""), StrVal("42x5yz"), StrVal("wrong")}
TypeValues ==
    {Absent, StrVal("FOO"), StrVal("startup")}
        \cup {StrVal(legal_types[i]) : i \in 1..Len(legal_types)}

Events == [id : IdValues, token : TokenValues, type : TypeValues]

NoEvent == [id |-> Absent, token |-> Absent, type |-> Absent]

VARIABLES
    registry,   \* rows of the dispensers table, in insertion order
    relay,      \* <<topic, event>> pairs sent to the Kafka producer
    pc,         \* pc[w]: "idle", or "dispatch" (admitted, handler not yet run)
    ev,         \* ev[w]: the event worker w is processing
    snap,       \* snap[w]: the table as it was when ev[w] was posted
    resp        \* the response on its way to the device, with what its
                \* request did; NoResponse when none is

vars == <<registry, relay, pc, ev, snap, resp>>

\* ------------------------------------------------------- process_event
\* the test of line 92 with the token forgotten
required_absent_without_token(id, token, type) ==
    (~truthy(id)) \/ (~truthy(type))

\* src/app.py:92  (not id) or (not token) or (not type)
required_absent(id, token, type) ==
    (~truthy(id)) \/ (~truthy(token)) \/ (~truthy(type))

\* line 76 comparing nothing: any id of the table passes
permitted_ignoring_token(id, token) == id \in DOMAIN permitted_devices

\* src/app.py:76
permitted(id, token) == dict_get(permitted_devices, id) = token

\* process_event authenticating before it validates
admission_auth_first(event) ==
    LET id == get(event, "id")
        token == get(event, "token")
        type == get(event, "type")
    IN  IF ~permitted(event["id"], event["token"])
        THEN abort(401, "Invalid authentication token")
        ELSE IF required_absent(id, token, type)
        THEN abort(400, "Required field absent")
        ELSE IF ~in_list(type, legal_types)
        THEN abort(400, "Invalid event type")
        ELSE Admitted

\* process_event answering 404 for an id the table does not hold
admission_reveals_unknown_id(event) ==
    LET id == get(event, "id")
        token == get(event, "token")
        type == get(event, "type")
    IN  IF required_absent(id, token, type)
        THEN abort(400, "Required field absent")
        ELSE IF ~in_list(type, legal_types)
        THEN abort(400, "Invalid event type")
        ELSE IF event["id"] \notin DOMAIN permitted_devices
        THEN abort(404, "Unknown dispenser")
        ELSE IF ~permitted(event["id"], event["token"])
        THEN abort(401, "Invalid authentication token")
        ELSE Admitted

\* process_event without the call of permitted
admission_without_auth(event) ==
    LET id == get(event, "id")
        token == get(event, "token")
        type == get(event, "type")
    IN  IF required_absent(id, token, type)
        THEN abort(400, "Required field absent")
        ELSE IF ~in_list(type, legal_types)
        THEN abort(400, "Invalid event type")
        ELSE Admitted

\* src/app.py:86-105: the checks an event passes before it is dispatched
admission(event) ==
    LET id == get(event, "id")
        token == get(event, "token")
        type == get(event, "type")
    IN  IF required_absent(id, token, type)
        THEN abort(400, "Required field absent")
        ELSE IF ~in_list(type, legal_types)
        THEN abort(400, "Invalid event type")
        ELSE IF ~permitted(event["id"], event["token"])
        THEN abort(401, "Invalid authentication token")
        ELSE Admitted

\* the chain of lines 108-117 with the handlers of REFILL and REFILLED
\* exchanged
dispatch_refill_exchanged(type) ==
    IF type = StrVal("STARTUP") THEN "handle_startup"
    ELSE IF type = StrVal("DISPENSE") THEN "handle_dispense"
    ELSE IF type = StrVal("REFILL") THEN "handle_refilled"
    ELSE IF type = StrVal("REFILLED") THEN "handle_refill_request"
    ELSE IF type = StrVal("EMPTY") THEN "handle_empty"
    ELSE "none"

\* src/app.py:107-117: the handler an admitted event goes to
dispatch(type) ==
    IF type = StrVal("STARTUP") THEN "handle_startup"
    ELSE IF type = StrVal("DISPENSE") THEN "handle_dispense"
    ELSE IF type = StrVal("REFILL") THEN "handle_refill_request"
    ELSE IF type = StrVal("REFILLED") THEN "handle_refilled"
    ELSE IF type = StrVal("EMPTY") THEN "handle_empty"
    ELSE "none"

\* src/app.py:121 is commented out: nothing is sent
producer_send(log, topic, event) == log

\* ------------------------------------------------------------ database
\* Dispenser.__init__ with capacity and dispensed exchanged
Dispenser_swapped(id, name, capacity, dispensed) ==
    [id |-> id, name |-> name, capacity |-> dispensed, dispensed |-> capacity]

\* Dispenser.__init__
Dispenser(id, name, capacity, dispensed) ==
    [id |-> id, name |-> name, capacity |-> capacity, dispensed |-> dispensed]

\* the table without its primary key: every INSERT succeeds
session_add_commit_no_key(table, row) ==
    [raised |-> FALSE, table |-> Append(table, row)]

\* commit() without add(): nothing is inserted
session_commit_without_add(table, row) ==
    [raised |-> FALSE, table |-> table]

\* db.session.add(row); db.session.commit(): INSERT into a table whose id
\* column is the primary key.  A row with that id already there makes the
\* INSERT fail (IntegrityError) and the transaction is rolled back.
session_add_commit(table, row) ==
    IF \E i \in 1..Len(table) : table[i].id = row.id
    THEN [raised |-> TRUE, table |-> table]
    ELSE [raised |-> FALSE, table |-> Append(table, row)]

\* ------------------------------------------------------------- handlers
\* handle_startup returning early when the id already has a row
handle_startup_idempotent(table, event) ==
    IF \E i \in 1..Len(table) : table[i].id = event["id"].n
    THEN [raised |-> FALSE, table |-> table]
    ELSE [raised |-> FALSE,
          table |-> Append(table, [id |-> event["id"].n, name |-> DefaultName,
                                   capacity |-> DefaultCapacity, dispensed |-> 0])]

handle_startup(table, event) ==
    LET new_dispenser == Dispenser(event["id"].n, DefaultName, DefaultCapacity, 0)
    IN  session_add_commit(table, new_dispenser)

\* handle_dispense counting the dispensed item in the device's row
handle_dispense_counting(table, event) ==
    [raised |-> FALSE,
     table |-> [i \in 1..Len(table) |->
                  IF table[i].id = event["id"].n
                  THEN [table[i] EXCEPT !.dispensed = @ + 1]
                  ELSE table[i]]]

handle_dispense(table, event) == [raised |-> FALSE, table |-> table]

handle_refill_request(table, event) == [raised |-> FALSE, table |-> table]

handle_refilled(table, event) == [raised |-> FALSE, table |-> table]

\* handle_empty removing the row of the empty device
handle_empty_deleting(table, event) ==
    [raised |-> FALSE,
     table |-> SelectSeq(table, LAMBDA row : row.id # event["id"].n)]

handle_empty(table, event) == [raised |-> FALSE, table |-> table]

run_handler(h, table, event) ==
    CASE h = "handle_startup" -> handle_startup(table, event)
      [] h = "handle_dispense" -> handle_dispense(table, event)
      [] h = "handle_refill_request" -> handle_refill_request(table, event)
      [] h = "handle_refilled" -> handle_refilled(table, event)
      [] h = "handle_empty" -> handle_empty(table, event)
      [] OTHER -> [raised |-> FALSE, table |-> table]

\* ------------------------------------------------------------ responses
\* What the device sees (status) and what the request did on the way:
\* the warning logged, the handler run, the events the other workers had
\* admitted and not yet handled when that handler ran, the table when the
\* event was posted, just before the handler and when the response was
\* sent, and the number of messages handed to the producer.
Response(event, status, log, handler, peers, arrival, before, after, published) ==
    [ev |-> event, status |-> status, log |-> log, handler |-> handler,
     peers |-> peers, arrival |-> arrival, before |-> before, after |-> after,
     published |-> published]

NoResponse == Response(NoEvent, 0, "", "none", {}, <<>>, <<>>, <<>>, 0)

Init ==
    /\ registry = <<>>
    /\ relay = <<>>
    /\ pc = [w \in Workers |-> "idle"]
    /\ ev = [w \in Workers |-> NoEvent]
    /\ snap = [w \in Workers |-> <<>>]
    /\ resp = NoResponse

\* index (POST), src/app.py:53-55, and process_event up to line 105: the
\* event is rejected (abort) or goes on to its handler.
Post(w, event) ==
    /\ resp = NoResponse
    /\ pc[w] = "idle"
    /\ LET a == admission(event)
       IN  IF a.status # 0
           THEN /\ resp' = Response(event, a.status, a.log, "none",
                                    {}, registry, registry, registry, 0)
                /\ UNCHANGED <<pc, ev, snap>>
           ELSE /\ pc' = [pc EXCEPT ![w] = "dispatch"]
                /\ ev' = [ev EXCEPT ![w] = event]
                /\ snap' = [snap EXCEPT ![w] = registry]
                /\ UNCHANGED resp
    /\ UNCHANGED <<registry, relay>>

\* process_event failing (database is locked) whenever another admitted
\* request has not yet run its handler
Handle_locked(w, h) ==
    /\ resp = NoResponse
    /\ pc[w] = "dispatch"
    /\ dispatch(ev[w]["type"]) = h
    /\ LET busy == \E u \in Workers : u # w /\ pc[u] = "dispatch"
           r == IF busy THEN [raised |-> TRUE, table |-> registry]
                ELSE run_handler(h, registry, ev[w])
       IN  /\ registry' = r.table
           /\ relay' = relay
           /\ resp' = Response(ev[w], IF r.raised THEN 500 ELSE 200, "", h,
                               {ev[v] : v \in {u \in Workers : u # w /\ pc[u] = "dispatch"}},
                               snap[w], registry, r.table, 0)
    /\ pc' = [pc EXCEPT ![w] = "idle"]
    /\ ev' = [ev EXCEPT ![w] = NoEvent]
    /\ snap' = [snap EXCEPT ![w] = <<>>]

\* process_event from line 107 and the return of index (line 56): the
\* handler h of the event's type runs; if it raises, the request ends with
\* status 500, else the event goes to the producer and the response is 200.
Handle(w, h) ==
    /\ resp = NoResponse
    /\ pc[w] = "dispatch"
    /\ dispatch(ev[w]["type"]) = h
    /\ LET r == run_handler(h, registry, ev[w])
           sent == IF r.raised THEN relay
                   ELSE producer_send(relay, ev[w]["type"].s, ev[w])
       IN  /\ registry' = r.table
           /\ relay' = sent
           /\ resp' = Response(ev[w], IF r.raised THEN 500 ELSE 200, "", h,
                               {ev[v] : v \in {u \in Workers : u # w /\ pc[u] = "dispatch"}},
                               snap[w], registry, r.table,
                               Len(sent) - Len(relay))
    /\ pc' = [pc EXCEPT ![w] = "idle"]
    /\ ev' = [ev EXCEPT ![w] = NoEvent]
    /\ snap' = [snap EXCEPT ![w] = <<>>]

\* The response leaves the server (the return of index, or the error
\* response Flask builds for an abort or an exception).  The program never
\* reads a response, so each one is delivered before the next step.
Deliver ==
    /\ resp # NoResponse
    /\ resp' = NoResponse
    /\ UNCHANGED <<registry, relay, pc, ev, snap>>

HandleStartup(w) == Handle(w, "handle_startup")
HandleDispense(w) == Handle(w, "handle_dispense")
HandleRefillRequest(w) == Handle(w, "handle_refill_request")
HandleRefilled(w) == Handle(w, "handle_refilled")
HandleEmpty(w) == Handle(w, "handle_empty")

Next ==
    \/ \E w \in Workers, event \in Events : Post(w, event)
    \/ \E w \in Workers : HandleStartup(w)
    \/ \E w \in Workers : HandleDispense(w)
    \/ \E w \in Workers : HandleRefillRequest(w)
    \/ \E w \in Workers : HandleRefilled(w)
    \/ \E w \in Workers : HandleEmpty(w)
    \/ Deliver

Spec == Init /\ [][Next]_vars

TypeOK ==
    /\ pc \in [Workers -> {"idle", "dispatch"}]
    /\ ev \in [Workers -> Events]
    /\ resp.status \in {0, 200, 400, 401, 500}

\* ------------------------------------------------- vocabulary of the claims
Responded == resp.status # 0

GoodToken == StrVal("42x5yz")

\* the legal types as the specification lists them
SpecLegalTypes ==
    {StrVal("STARTUP"), StrVal("DISPENSE"), StrVal("REFILL"),
     StrVal("REFILLED"), StrVal("EMPTY")}

KeyMissing(e) == e.id = Absent \/ e.token = Absent \/ e.type = Absent

\* a field value that is there and is neither null, empty nor zero
NonEmpty(x) == x \notin {Absent, None, StrVal(""), IntVal(0)}

Complete(e) == NonEmpty(e.id) /\ NonEmpty(e.token) /\ NonEmpty(e.type)

LegalType(e) == e.type \in SpecLegalTypes

\* the Credential Store holds an entry for the id, and its token is the event's
KnownId(e) == e.id = IntVal(1)
HasCredential(e) == KnownId(e) /\ e.token = GoodToken

\* the request behind the last response changed nothing
NoEffect ==
    /\ resp.handler = "none"
    /\ resp.before = resp.arrival
    /\ resp.after = resp.before
    /\ registry = resp.before
    /\ resp.published = 0

RowsOf(table, id) == {i \in 1..Len(table) : table[i].id = id}

Scenario(id, token, type) == [id |-> id, token |-> token, type |-> type]

\* C1: an event in which id, token or type is missing is answered 400 with
\* the required-field warning, whatever the table holds; no handler runs,
\* the table is unchanged and nothing is handed to the producer.
C1_MissingFieldRejected ==
    (Responded /\ KeyMissing(resp.ev)) =>
        /\ resp.status = 400
        /\ resp.log = "Required field absent"
        /\ NoEffect
        /\ relay = <<>>

\* Scenario 4 (no id), posted when the table already holds a row
C1_Witness ==
    /\ resp.ev = Scenario(Absent, GoodToken, StrVal("STARTUP"))
    /\ resp.status = 400
    /\ Len(registry) = 1

C3_AdmittedIffCredential ==
    /\ \A w \in Workers :
          pc[w] = "dispatch" =>
              Complete(ev[w]) /\ LegalType(ev[w]) /\ HasCredential(ev[w])
    /\ (Responded /\ Complete(resp.ev) /\ LegalType(resp.ev)) =>
          IF HasCredential(resp.ev)
          THEN resp.handler # "none" /\ resp.status \notin {400, 401}
          ELSE resp.status = 401 /\ NoEffect

\* Scenario 5: id 2 has no entry in the credential table
C3_Witness ==
    /\ resp.ev = Scenario(IntVal(2), GoodToken, StrVal("DISPENSE"))
    /\ resp.status = 401

C6_OneRecordPerId ==
    \A i, j \in 1..Len(registry) : registry[i].id = registry[j].id => i = j

\* two STARTUP events for the same new id were in flight at once: the
\* handler of one inserted the row, then the handler of the other ran
C6_Witness ==
    /\ resp.handler = "handle_startup"
    /\ resp.arrival = <<>>
    /\ RowsOf(resp.before, resp.ev.id.n) # {}
    /\ Cardinality(RowsOf(registry, resp.ev.id.n)) = 1

C8_AcceptedEventPublishedOnce ==
    Responded =>
        IF resp.status = 200
        THEN /\ resp.published = 1
             /\ Len(relay) >= 1
             /\ relay[Len(relay)] = <<resp.ev.type.s, resp.ev>>
        ELSE resp.published = 0

\* C9: an authentication failure is answered the same way whether or not the
\* credential table holds the id: a complete event with a legal type that
\* does not authenticate is answered 401 and changes nothing, and so would
\* every such event of the same type on the other side (id held / not held).
C9_NoIdEnumeration ==
    (Responded /\ Complete(resp.ev) /\ LegalType(resp.ev)
       /\ ~HasCredential(resp.ev)) =>
        /\ resp.status = 401
        /\ NoEffect
        /\ \A e \in Events :
              (Complete(e) /\ LegalType(e) /\ ~HasCredential(e)
                 /\ e.type = resp.ev.type /\ KnownId(e) # KnownId(resp.ev)) =>
                  /\ admission(e).status = resp.status
                  /\ admission(e).log = resp.log

\* Scenario 2 (id 1, wrong token), posted when the table holds a row
C9_Witness ==
    /\ resp.ev = Scenario(IntVal(1), StrVal("wrong"), StrVal("STARTUP"))
    /\ resp.status = 401
    /\ Len(registry) = 1

\* C10: in every reachable state every row has 0 <= dispensed <= capacity.
C10_DispensedWithinCapacity ==
    \A i \in 1..Len(registry) :
        0 <= registry[i].dispensed
            /\ registry[i].dispensed <= registry[i].capacity

\* a DISPENSE accepted for a device that has a row
C10_Witness ==
    /\ resp.handler = "handle_dispense"
    /\ resp.status = 200
    /\ RowsOf(registry, resp.ev.id.n) # {}

\* C11: a row appears in the table only by the handler step of an admitted
\* STARTUP event carrying its id, and a row that is in the table stays in
\* it, with its id and capacity, after every step.
C11_RecordLifecycle ==
    [][/\ \A i \in 1..Len(registry) :
             \E j \in 1..Len(registry') :
                 /\ registry'[j].id = registry[i].id
                 /\ registry'[j].capacity = registry[i].capacity
       /\ \A j \in 1..Len(registry') :
             RowsOf(registry, registry'[j].id) = {} =>
                 \E w \in Workers :
                     /\ pc[w] = "dispatch"
                     /\ pc'[w] = "idle"
                     /\ ev[w].type = StrVal("STARTUP")
                     /\ ev[w].id = IntVal(registry'[j].id)
                     /\ HasCredential(ev[w])]_vars

\* an EMPTY event accepted for a device that has a row: the row is still there
C11_Witness ==
    /\ resp.handler = "handle_empty"
    /\ resp.status = 200
    /\ RowsOf(resp.before, resp.ev.id.n) # {}
    /\ RowsOf(registry, resp.ev.id.n) # {}

\* the rows of a table that belong to the id of event e
OwnRows(table, e) ==
    SelectSeq(table, LAMBDA row : e.id.k = "int" /\ row.id = e.id.n)

\* the status an event gets when it is processed with no other request in
\* flight, from the rows its id has
AloneStatus(e, own) ==
    IF ~(Complete(e) /\ LegalType(e)) THEN 400
    ELSE IF ~HasCredential(e) THEN 401
    ELSE IF e.type = StrVal("STARTUP") /\ own # <<>> THEN 500
    ELSE 200

\* the rows its id has afterwards
AloneRows(e, own) ==
    IF AloneStatus(e, own) = 200 /\ e.type = StrVal("STARTUP")
    THEN <<[id |-> e.id.n, name |-> "Another Dispenser",
            capacity |-> 20, dispensed |-> 0]>>
    ELSE own

C13_StubHandlersInert ==
    (Responded /\ HasCredential(resp.ev)
       /\ resp.ev.type \in {StrVal("DISPENSE"), StrVal("REFILL"),
                            StrVal("REFILLED"), StrVal("EMPTY")}) =>
        /\ resp.status = 200
        /\ resp.handler # "none"
        /\ resp.after = resp.before
        /\ registry = resp.before

\* a REFILLED event accepted for a device that has a row
C13_Witness ==
    /\ resp.handler = "handle_refilled"
    /\ resp.status = 200
    /\ Len(registry) = 1
    /\ registry[1].id = resp.ev.id.n

\* the handler the specification gives each type
SpecHandler(type) ==
    CASE type = StrVal("STARTUP") -> "handle_startup"
      [] type = StrVal("DISPENSE") -> "handle_dispense"
      [] type = StrVal("REFILL") -> "handle_refill_request"
      [] type = StrVal("REFILLED") -> "handle_refilled"
      [] type = StrVal("EMPTY") -> "handle_empty"
      [] OTHER -> "none"

\* C14: the handler run for an admitted event is the one of its own type,
\* and no handler runs for a rejected event; an event waiting for its
\* handler is an admitted one.
C14_DispatchByType ==
    /\ Responded =>
          IF Complete(resp.ev) /\ LegalType(resp.ev) /\ HasCredential(resp.ev)
          THEN resp.handler = SpecHandler(resp.ev.type) /\ resp.handler # "none"
          ELSE resp.handler = "none"
    /\ \A w \in Workers :
          pc[w] = "dispatch" => SpecHandler(ev[w].type) # "none"

\* a REFILL event went to handle_refill_request
C14_Witness ==
    /\ resp.ev.type = StrVal("REFILL")
    /\ resp.handler = "handle_refill_request"
    /\ resp.status = 200

\* a field that is there and is neither null nor empty, of any kind
SpecPresent(x) == x \notin {Absent, None, StrVal("")}

\* the validator's result as the specification classifies the event
SpecValidation(e) ==
    IF ~(SpecPresent(e.id) /\ SpecPresent(e.token) /\ SpecPresent(e.type))
    THEN "MissingField"
    ELSE IF ~LegalType(e) THEN "IllegalType"
    ELSE "valid"

\* the validator's result as the response shows it
ObservedValidation ==
    IF resp.status = 400 /\ resp.log = "Required field absent"
    THEN "MissingField"
    ELSE IF resp.status = 400 /\ resp.log = "Invalid event type"
    THEN "IllegalType"
    ELSE "valid"

\* C15 as claimed: the validator's result is the classification above for
\* every event: a numeric id such as 0 counts as present.
C15_ValidatorClassification ==
    Responded => ObservedValidation = SpecValidation(resp.ev)

\* C16 as claimed: every request ends in 200, 400 or 401, and a valid,
\* authenticated event is answered 200 whatever the table holds.
C16_OutcomesClosed ==
    Responded =>
        /\ resp.status \in {200, 400, 401}
        /\ (Complete(resp.ev) /\ LegalType(resp.ev) /\ HasCredential(resp.ev))
              => resp.status = 200

\* the ids that have an entry in the Credential Store
CredentialIds == {1}

\* C17: in every reachable state the id of every row has an entry in the
\* credential table.
C17_RecordsHaveCredentials ==
    \A i \in 1..Len(registry) : registry[i].id \in CredentialIds

\* a STARTUP for id 2 with the token of id 1 is answered 401 and the table
\* still holds the row of id 1 only
C17_Witness ==
    /\ resp.ev = Scenario(IntVal(2), GoodToken, StrVal("STARTUP"))
    /\ resp.status = 401
    /\ Len(registry) = 1
    /\ registry[1].id = 1

====
